---- MODULE Spec2Model ----
(***************************************************************************)
(* toydns: the DNS wire-format codec of src/unnamed/part_000.              *)
(*   - the encoder: encodeDomain, buildQuery                               *)
(*   - the decoder: DNSResponseParser, a cursor (offset) over a byte slice *)
(*     d.bytes, with parseHeader, parseQuestion, parseRecord and the name  *)
(*     decoding parseDomainName / parseCompressedName they share.          *)
(* A Go slice has a length and a capacity: s[i] is checked against the     *)
(* length, s[low:high] against the capacity, s[low:] against the length.   *)
(* The variable bytes is the backing array of d.bytes up to its capacity,  *)
(* bytesLen is len(d.bytes).                                               *)
(***************************************************************************)
EXTENDS Integers, Sequences, FiniteSets, TLC

VARIABLES
    bytes,      \* backing array of d.bytes, Len(bytes) = cap(d.bytes)
    bytesLen,   \* len(d.bytes)
    offset,     \* d.offset
    pc,         \* where the caller / the call in progress stands
    op,         \* the decode operation in progress, or the last one
    stack,      \* the active parseDomainName frames, innermost last
    name,       \* the name a parseDomainName activation is returning
    result,     \* what the last returned call returned
    startOff,   \* d.offset when the operation was called
    oob,        \* the call in progress read a byte at an index >= len(d.bytes)
    domainName, \* buildQuery / encodeDomain argument
    recordType, \* buildQuery argument
    queryId,    \* the value rand.Intn(1 << 16) returned
    query       \* what buildQuery returned (<<>> before the call)

decVars == <<bytes, bytesLen, offset, pc, op, stack, name, result, startOff, oob>>
encVars == <<domainName, recordType, queryId, query>>
vars == <<bytes, bytesLen, offset, pc, op, stack, name, result, startOff, oob,
          domainName, recordType, queryId, query>>

-----------------------------------------------------------------------------
(* Bounds of the model *)

MaxCap == 5
MaxSlack == 1
MaxDepth == 6
MaxNameLen == 5

(* Inputs *)

ByteVals == {0, 1, 2, 3, 192}
NameChars == {46, 97, 98}
RecordTypes == {1, 258, 65535}
QueryIds == {33432, 255}

Sample ==
    <<134, 253, 129, 128, 0, 1, 0, 1, 0, 0, 0, 0,
      3, 119, 119, 119, 7, 101, 120, 97, 109, 112, 108, 101, 3, 99, 111, 109, 0,
      0, 1, 0, 1,
      192, 12, 0, 1, 0, 1, 0, 0, 80, 205, 0, 4, 93, 184, 216, 34>>

\* "a" followed by a pointer to offset 8, type 1, class 1, and "com" at offset 8
PointerSample == <<1, 97, 192, 8, 0, 1, 0, 1, 3, 99, 111, 109, 0>>

WwwExampleCom ==
    <<119, 119, 119, 46, 101, 120, 97, 109, 112, 108, 101, 46, 99, 111, 109>>

\* one label of 63 bytes, the longest the wire format allows
Label63 == [i \in 1..63 |-> 97]

SeqsUpTo(S, n) == UNION {[1..k -> S] : k \in 0..n}

Min(a, b) == IF a < b THEN a ELSE b

RECURSIVE Zeros(_)
Zeros(n) == IF n = 0 THEN <<>> ELSE <<0>> \o Zeros(n - 1)

-----------------------------------------------------------------------------
(* Program constants *)

typeARecord == 1
\* the class written as 0
classINZero == 1 - 1

classIN == 1
lenRecordType == 2
lenClass == 2
headerSize == 12
Dot == 46

errParsingDomainName == "domain name parsing failed"
errParsingRecord == "record parsing failed"
errInsufficientData == "insufficient data to fill buffer"

-----------------------------------------------------------------------------
(* Encoder *)

\* little-endian instead of big-endian
PutUint16LE(v) == <<v % 256, (v \div 256) % 256>>

PutUint16(v) == <<(v \div 256) % 256, v % 256>>

RECURSIVE Split(_)
Split(s) ==
    IF \A i \in 1..Len(s) : s[i] # Dot
    THEN <<s>>
    ELSE LET i == CHOOSE k \in 1..Len(s) :
                      s[k] = Dot /\ \A j \in 1..(k - 1) : s[j] # Dot
         IN <<SubSeq(s, 1, i - 1)>> \o Split(SubSeq(s, i + 1, Len(s)))

RECURSIVE encodeParts(_)
encodeParts(parts) ==
    IF parts = <<>> THEN <<>>
    ELSE <<Len(Head(parts)) % 256>> \o Head(parts) \o encodeParts(Tail(parts))

\* the zero terminator forgotten
encodeDomainNoTerminator(dn) == encodeParts(Split(dn))

encodeDomain(dn) == encodeParts(Split(dn)) \o <<0>>

writeHeader(h) ==
    PutUint16(h.QueryID) \o PutUint16(h.Flags) \o PutUint16(h.NumQuestions)
        \o PutUint16(h.NumAnswers) \o PutUint16(h.NumAuthorities)
        \o PutUint16(h.NumAdditionals)

buildQuery(dn, rt, id) ==
    LET header == [QueryID |-> id % 65536, Flags |-> 256, NumQuestions |-> 1,
                   NumAnswers |-> 0, NumAuthorities |-> 0, NumAdditionals |-> 0]
    IN writeHeader(header) \o encodeDomain(dn) \o PutUint16(rt) \o PutUint16(classIN)

-----------------------------------------------------------------------------
(* Decoder: slices, primitive reads *)

\* little-endian instead of big-endian
Uint16LE(buf) == buf[2] * 256 + buf[1]

Uint16(buf) == buf[1] * 256 + buf[2]
\* A uint32 is held as its two 16-bit halves, value = hi * 65536 + lo: the
\* model checker's integers are 32-bit signed and cannot hold 2^32 - 1.
Uint32(buf) == [hi |-> buf[1] * 256 + buf[2], lo |-> buf[3] * 256 + buf[4]]

\* d.bytes[low:high] does not panic
SliceOK(low, high) == 0 <= low /\ low <= high /\ high <= Len(bytes)
\* d.bytes[i] does not panic
IndexOK(i) == 0 <= i /\ i < bytesLen
\* copy(dst, src) returns min(len(dst), len(src))
copy(dstLen, srcLen) == Min(dstLen, srcLen)

isPointer(b) == (b \div 64) = 3

\* the step over the pointer's second byte forgotten
afterPointerStay(currOffset) == currOffset

\* d.offset after parseCompressedName restored it and the caller added 1
afterPointer(currOffset) == currOffset + 1

\* the pointer stepped over instead of followed
jumpTargetSkip(pointer, currOffset) == currOffset + 1

\* the offset parseCompressedName moves the cursor to
jumpTarget(pointer, currOffset) == pointer

RECURSIVE Join(_)
Join(parts) ==
    IF parts = <<>> THEN <<>>
    ELSE IF Len(parts) = 1 THEN parts[1]
    ELSE parts[1] \o <<Dot>> \o Join(Tail(parts))

NoResult == [kind |-> "none", err |-> "", val |-> <<>>]
Ok(v) == [kind |-> "ok", err |-> "", val |-> v]
Err(e) == [kind |-> "err", err |-> e, val |-> <<>>]
Panicked == [kind |-> "panic", err |-> "", val |-> <<>>]

\* the cursor advanced by the bytes copied even when they are too few
readAdvancing(size, off) ==
    IF off > bytesLen
    THEN [st |-> "panic", off |-> off, buf |-> <<>>]
    ELSE LET n == Min(size, bytesLen - off)
         IN IF n < size
            THEN [st |-> errInsufficientData, off |-> off + n, buf |-> <<>>]
            ELSE [st |-> "ok", off |-> off + n, buf |-> SubSeq(bytes, off + 1, off + n)]

\* read(buf) with len(buf) = size at cursor off
read(size, off) ==
    IF off > bytesLen
    THEN [st |-> "panic", off |-> off, buf |-> <<>>]
    ELSE LET n == copy(size, bytesLen - off)
         IN IF n < size
            THEN [st |-> errInsufficientData, off |-> off, buf |-> <<>>]
            ELSE [st |-> "ok", off |-> off + n, buf |-> SubSeq(bytes, off + 1, off + n)]

readUint16(off) ==
    LET r == read(2, off)
    IN IF r.st = "panic" THEN [st |-> "panic", off |-> r.off, val |-> 0]
       ELSE IF r.st # "ok" THEN [st |-> errParsingRecord, off |-> r.off, val |-> 0]
       ELSE [st |-> "ok", off |-> r.off, val |-> Uint16(r.buf)]

readUint32(off) ==
    LET r == read(4, off)
    IN IF r.st = "panic" THEN [st |-> "panic", off |-> r.off, val |-> Uint32(Zeros(4))]
       ELSE IF r.st # "ok"
       THEN [st |-> errParsingRecord, off |-> r.off, val |-> Uint32(Zeros(4))]
       ELSE [st |-> "ok", off |-> r.off, val |-> Uint32(r.buf)]

-----------------------------------------------------------------------------
(* Decoder: operations *)

\* NewParser(response): the cursor starts at 0
NewParser(backing, length) ==
    /\ bytes' = backing
    /\ bytesLen' = length
    /\ offset' = 0
    /\ pc' = "idle"
    /\ op' = "none"
    /\ stack' = <<>>
    /\ name' = <<>>
    /\ result' = NoResult
    /\ startOff' = 0
    /\ oob' = FALSE

\* A run-time panic (index or slice bounds out of range) ends the process.
Panic ==
    /\ pc' = "panicked"
    /\ result' = Panicked
    /\ stack' = <<>>
    /\ name' = <<>>

\* An operation returns to its caller.
Return(r) ==
    /\ pc' = "idle"
    /\ result' = r
    /\ stack' = <<>>
    /\ name' = <<>>

parseHeader ==
    /\ pc = "idle"
    /\ op' = "parseHeader"
    /\ startOff' = offset
    /\ oob' = FALSE
    /\ UNCHANGED <<bytes, bytesLen, encVars>>
    /\ LET r == read(headerSize, offset)
       IN IF r.st = "panic"
          THEN Panic /\ UNCHANGED offset
          ELSE IF r.st # "ok"
          THEN Return(Err(r.st)) /\ offset' = r.off
          ELSE /\ Return(Ok([QueryID |-> Uint16(SubSeq(r.buf, 1, 2)),
                             Flags |-> Uint16(SubSeq(r.buf, 3, 4)),
                             NumQuestions |-> Uint16(SubSeq(r.buf, 5, 6)),
                             NumAnswers |-> Uint16(SubSeq(r.buf, 7, 8)),
                             NumAuthorities |-> Uint16(SubSeq(r.buf, 9, 10)),
                             NumAdditionals |-> Uint16(SubSeq(r.buf, 11, 12))]))
               /\ offset' = r.off

\* parseQuestion / parseRecord are called: each starts with d.parseDomainName()
CallOp(o) ==
    /\ pc = "idle"
    /\ op' = o
    /\ startOff' = offset
    /\ oob' = FALSE
    /\ pc' = "name"
    /\ stack' = <<[nameParts |-> <<>>, currOffset |-> -1]>>
    /\ name' = <<>>
    /\ result' = NoResult
    /\ UNCHANGED <<bytes, bytesLen, offset, encVars>>

parseQuestion == CallOp("parseQuestion")

parseRecord == CallOp("parseRecord")

\* One iteration of the loop of parseDomainName, in the innermost activation.
parseDomainName ==
    /\ pc = "name"
    /\ UNCHANGED <<bytes, bytesLen, op, startOff, encVars>>
    /\ LET top == stack[Len(stack)]
       IN IF ~SliceOK(offset, offset + 1)
          THEN Panic /\ UNCHANGED <<offset, oob>>
          ELSE
            LET n == copy(1, (offset + 1) - offset)
                off1 == offset + n
                lenByte == bytes[offset + 1]
                oob1 == oob \/ offset >= bytesLen
            IN IF n < 1
               THEN Return(Err(errParsingDomainName)) /\ UNCHANGED <<offset, oob>>
               ELSE IF isPointer(lenByte)
               THEN IF ~IndexOK(off1)
                    THEN Panic /\ offset' = off1 /\ oob' = oob1
                    ELSE \* parseCompressedName(pointer)
                         /\ Len(stack) < MaxDepth
                         /\ offset' = jumpTarget(bytes[off1 + 1], off1)
                         /\ stack' = Append(stack, [nameParts |-> <<>>,
                                                    currOffset |-> off1])
                         /\ oob' = oob1
                         /\ UNCHANGED <<pc, name, result>>
               ELSE IF lenByte = 0
               THEN /\ pc' = "nameRet"
                    /\ name' = Join(top.nameParts)
                    /\ offset' = off1
                    /\ oob' = oob1
                    /\ UNCHANGED <<stack, result>>
               ELSE IF ~SliceOK(off1, off1 + lenByte)
               THEN Panic /\ offset' = off1 /\ oob' = oob1
               ELSE LET m == copy(lenByte, (off1 + lenByte) - off1)
                    IN IF m < lenByte
                       THEN Return(Err(errParsingDomainName))
                            /\ offset' = off1 /\ oob' = oob1
                       ELSE /\ offset' = off1 + m
                            /\ stack' = [stack EXCEPT ![Len(stack)].nameParts =
                                  Append(@, SubSeq(bytes, off1 + 1, off1 + m))]
                            /\ oob' = (oob1 \/ off1 + m > bytesLen)
                            /\ UNCHANGED <<pc, name, result>>

\* An activation of parseDomainName returns name: to parseCompressedName and
\* the activation that called it (which restores the cursor, appends the name,
\* steps over the pointer's second byte, leaves its loop and returns in turn),
\* or, the outermost one, to parseQuestion / parseRecord.
parseDomainNameReturn ==
    /\ pc = "nameRet"
    /\ UNCHANGED <<bytes, bytesLen, op, startOff, oob, result, encVars>>
    /\ IF Len(stack) > 1
       THEN LET top == stack[Len(stack)]
                parent == stack[Len(stack) - 1]
            IN /\ offset' = afterPointer(top.currOffset)
               /\ name' = Join(Append(parent.nameParts, name))
               /\ stack' = SubSeq(stack, 1, Len(stack) - 1)
               /\ pc' = "nameRet"
       ELSE /\ pc' = "fields"
            /\ stack' = <<>>
            /\ UNCHANGED <<offset, name>>

\* parseQuestion after its name: record type, record class
questionFields ==
    /\ pc = "fields"
    /\ op = "parseQuestion"
    /\ UNCHANGED <<bytes, bytesLen, op, startOff, oob, encVars>>
    /\ LET t == readUint16(offset)
           c == readUint16(t.off)
       IN IF t.st = "panic" THEN Panic /\ UNCHANGED offset
          ELSE IF t.st # "ok" THEN Return(Err(t.st)) /\ offset' = t.off
          ELSE IF c.st = "panic" THEN Panic /\ offset' = t.off
          ELSE IF c.st # "ok" THEN Return(Err(c.st)) /\ offset' = c.off
          ELSE /\ Return(Ok([domainName |-> name, recordType |-> t.val,
                             recordClass |-> c.val]))
               /\ offset' = c.off

\* parseRecord after its name: type, class, TTL, data length, data
recordFields ==
    /\ pc = "fields"
    /\ op = "parseRecord"
    /\ UNCHANGED <<bytes, bytesLen, op, startOff, oob, encVars>>
    /\ LET t == readUint16(offset)
           c == readUint16(t.off)
           l == readUint32(c.off)
           n == readUint16(l.off)
           d == read(n.val, n.off)
       IN IF t.st = "panic" THEN Panic /\ UNCHANGED offset
          ELSE IF t.st # "ok" THEN Return(Err(t.st)) /\ offset' = t.off
          ELSE IF c.st = "panic" THEN Panic /\ offset' = t.off
          ELSE IF c.st # "ok" THEN Return(Err(c.st)) /\ offset' = c.off
          ELSE IF l.st = "panic" THEN Panic /\ offset' = c.off
          ELSE IF l.st # "ok" THEN Return(Err(l.st)) /\ offset' = l.off
          ELSE IF n.st = "panic" THEN Panic /\ offset' = l.off
          ELSE IF n.st # "ok" THEN Return(Err(n.st)) /\ offset' = n.off
          ELSE IF d.st = "panic" THEN Panic /\ offset' = n.off
          ELSE IF d.st # "ok" THEN Return(Err(errParsingRecord)) /\ offset' = d.off
          ELSE /\ Return(Ok([Name |-> name, RecordType |-> t.val, Class |-> c.val,
                             Ttl |-> l.val, DataLength |-> n.val, Data |-> d.buf]))
               /\ offset' = d.off

-----------------------------------------------------------------------------
(* The decoder over a received datagram *)

Init ==
    /\ \/ /\ bytes \in SeqsUpTo(ByteVals, MaxCap)
          /\ bytesLen \in {l \in 0..Len(bytes) : Len(bytes) - l <= MaxSlack}
       \/ /\ bytes \in {Sample, PointerSample}
          /\ bytesLen = Len(bytes)
    /\ offset = 0
    /\ pc = "idle"
    /\ op = "none"
    /\ stack = <<>>
    /\ name = <<>>
    /\ result = NoResult
    /\ startOff = 0
    /\ oob = FALSE
    /\ domainName = <<>>
    /\ recordType = typeARecord
    /\ queryId = 0
    /\ query = <<>>

Next ==
    \/ parseHeader
    \/ parseQuestion
    \/ parseRecord
    \/ parseDomainName
    \/ parseDomainNameReturn
    \/ questionFields
    \/ recordFields

Spec == Init /\ [][Next]_vars

-----------------------------------------------------------------------------
(* The encoder, and the decoder over the encoder's output *)

InitEnc ==
    /\ domainName \in SeqsUpTo(NameChars, MaxNameLen) \cup {WwwExampleCom, Label63}
    /\ recordType \in RecordTypes
    /\ queryId \in QueryIds
    /\ query = <<>>
    /\ bytes = <<>>
    /\ bytesLen = 0
    /\ offset = 0
    /\ pc = "start"
    /\ op = "none"
    /\ stack = <<>>
    /\ name = <<>>
    /\ result = NoResult
    /\ startOff = 0
    /\ oob = FALSE

BuildQuery ==
    /\ pc = "start"
    /\ query = <<>>
    /\ query' = buildQuery(domainName, recordType, queryId)
    /\ UNCHANGED <<decVars, domainName, recordType, queryId>>

\* NewParser(encodeDomain(domainName)): append leaves the slice with a capacity
\* of its choice, the spare bytes zeroed.
ParseEncoded ==
    /\ pc = "start"
    /\ \E slack \in 0..MaxSlack :
          NewParser(encodeDomain(domainName) \o Zeros(slack),
                    Len(encodeDomain(domainName)))
    /\ UNCHANGED encVars

NextEnc ==
    \/ BuildQuery
    \/ ParseEncoded
    \/ Next

SpecEnc == InitEnc /\ [][NextEnc]_vars

-----------------------------------------------------------------------------
(* Reference readings of the wire format, used to state the properties *)

\* The labels written from offset off on, inside the buffer's length, up to
\* the first byte that is not a label length: a zero ("zero"), a byte with
\* its top two bits set ("pointer"), or the end of the buffer ("bad").
RECURSIVE Scan(_)
Scan(off) ==
    IF off >= bytesLen
    THEN [kind |-> "bad", labels |-> <<>>, at |-> off]
    ELSE LET b == bytes[off + 1]
         IN IF b >= 192 THEN [kind |-> "pointer", labels |-> <<>>, at |-> off]
            ELSE IF b = 0 THEN [kind |-> "zero", labels |-> <<>>, at |-> off]
            ELSE IF off + 1 + b > bytesLen
            THEN [kind |-> "bad", labels |-> <<>>, at |-> off]
            ELSE LET r == Scan(off + 1 + b)
                 IN [kind |-> r.kind,
                     labels |-> <<SubSeq(bytes, off + 2, off + 1 + b)>> \o r.labels,
                     at |-> r.at]

\* Where the chain of names and pointers that starts at offset off leads:
\* "ends" at a zero byte, "panic" out of the slice, or "cycle" when a pointer
\* leads to an offset a name of the chain already started at.
RECURSIVE Chase(_, _)
Chase(off, seen) ==
    IF off + 1 > Len(bytes) THEN "panic"
    ELSE LET b == bytes[off + 1]
         IN IF b >= 192
            THEN IF off + 1 >= bytesLen THEN "panic"
                 ELSE LET t == bytes[off + 2]
                      IN IF t \in seen THEN "cycle" ELSE Chase(t, seen \cup {t})
            ELSE IF b = 0 THEN "ends"
            ELSE IF off + 1 + b > Len(bytes) THEN "panic"
            ELSE Chase(off + 1 + b, seen)

\* A domain name all of whose dot-separated labels are non-empty.
WellFormedName(s) ==
    /\ Len(s) > 0
    /\ s[1] # 46
    /\ s[Len(s)] # 46
    /\ \A i \in 1..(Len(s) - 1) : ~(s[i] = 46 /\ s[i + 1] = 46)

\* The non-empty dot-separated parts of s, read byte by byte.
RECURSIVE NonEmptyParts(_, _)
NonEmptyParts(s, cur) ==
    IF s = <<>> THEN (IF cur = <<>> THEN <<>> ELSE <<cur>>)
    ELSE IF Head(s) = 46
    THEN (IF cur = <<>> THEN <<>> ELSE <<cur>>) \o NonEmptyParts(Tail(s), <<>>)
    ELSE NonEmptyParts(Tail(s), Append(cur, Head(s)))

RECURSIVE WireOf(_)
WireOf(labels) ==
    IF labels = <<>> THEN <<0>>
    ELSE <<Len(Head(labels))>> \o Head(labels) \o WireOf(Tail(labels))

RECURSIVE SumLabels(_)
SumLabels(labels) ==
    IF labels = <<>> THEN 0 ELSE (1 + Len(Head(labels))) + SumLabels(Tail(labels))

QueryTail31(class) ==
    <<1, 0, 0, 1, 0, 0, 0, 0, 0, 0,
      3, 119, 119, 119, 7, 101, 120, 97, 109, 112, 108, 101, 3, 99, 111, 109, 0,
      0, 1>> \o class

-----------------------------------------------------------------------------
(* Properties *)

\* C1: no decode call panics, and none reads a byte at an index at or beyond
\* the buffer's length, whatever the buffer holds.
C1_NoPanicNoOverread == pc # "panicked" /\ ~oob

\* C2: a name that ends in a pointer to a literally written name decodes to
\* its own labels followed by the name at the target, and leaves the cursor
\* just past the pointer's two bytes.
C2_PointerName ==
    LET own == Scan(startOff)
        tgt == Scan(bytes[own.at + 2])
    IN (/\ pc = "fields"
        /\ own.kind = "pointer"
        /\ own.at + 1 < bytesLen
        /\ tgt.kind = "zero")
       => /\ name = Join(Append(own.labels, Join(tgt.labels)))
          /\ offset = own.at + 2

C2_Witness ==
    LET own == Scan(startOff)
    IN /\ bytes = PointerSample
       /\ pc = "fields"
       /\ startOff = 0
       /\ own.kind = "pointer"
       /\ own.labels = <<(<<97>>)>>
       /\ Scan(bytes[own.at + 2]).kind = "zero"
       /\ name = <<97, 46, 99, 111, 109>>
       /\ offset = 4

\* C3: on the 49-byte sample response, parseHeader, parseQuestion and
\* parseRecord in that order (each from the offset the one before left) yield
\* the header, the question and the record of www.example.com, and the cursor
\* ends at the end of the buffer.
C3_SampleResponse ==
    (bytes = Sample /\ pc = "idle") =>
       /\ (op = "parseHeader" /\ startOff = 0) =>
             /\ result.kind = "ok"
             /\ result.val.Flags = 33152
             /\ result.val.NumQuestions = 1
             /\ offset = 12
       /\ (op = "parseQuestion" /\ startOff = 12) =>
             /\ result.kind = "ok"
             /\ result.val = [domainName |-> WwwExampleCom, recordType |-> 1,
                              recordClass |-> 1]
             /\ offset = 33
       /\ (op = "parseRecord" /\ startOff = 33) =>
             /\ result.kind = "ok"
             /\ result.val = [Name |-> WwwExampleCom, RecordType |-> 1, Class |-> 1,
                              Ttl |-> [hi |-> 0, lo |-> 20685], DataLength |-> 4,
                              Data |-> <<93, 184, 216, 34>>]
             /\ offset = Len(bytes)

C3_Witness ==
    /\ bytes = Sample
    /\ pc = "idle"
    /\ op = "parseRecord"
    /\ startOff = 33
    /\ result.kind = "ok"
    /\ offset = 49

C6_RoundTrip ==
    (pc = "fields" /\ startOff = 0 /\ WellFormedName(domainName)) =>
       /\ name = domainName
       /\ offset = bytesLen
       /\ offset = Len(domainName) + 2
       /\ bytes[offset] = 0

C6_Witness ==
    /\ pc = "fields"
    /\ startOff = 0
    /\ domainName = WwwExampleCom
    /\ name = WwwExampleCom
    /\ offset = 17

\* C7: the name encoder writes a length byte and the label only for the
\* non-empty parts of the name, then one zero byte.
C7_OnlyNonEmptyParts ==
    pc # "start" =>
       SubSeq(bytes, 1, bytesLen) = WireOf(NonEmptyParts(domainName, <<>>))

\* C8: parseQuestion fails with the insufficient-data error or the
\* name-parsing error only, never with the record-parsing error.
C8_QuestionErrors ==
    (op = "parseQuestion" /\ pc = "idle" /\ result.kind = "err") =>
       result.err \in {errInsufficientData, errParsingDomainName}

\* C9: while the chain of pointers of the name being decoded leads back to an
\* offset it already started a name at, parseQuestion / parseRecord have not
\* returned: the call is still inside parseDomainName.
C9_CycleNeverReturns ==
    (op \in {"parseQuestion", "parseRecord"} /\ Chase(startOff, {startOff}) = "cycle")
       => (pc = "name" /\ result.kind = "none")

C9_Witness ==
    /\ op = "parseQuestion"
    /\ Chase(startOff, {startOff}) = "cycle"
    /\ bytes = <<192, 0>>
    /\ Len(stack) >= 5

\* C10: after every returned call the cursor is within 0..len(buffer); the
\* buffer never changes; a successful read advances the cursor by exactly its
\* width and a read that fails for insufficient data leaves it where it was.
C10_Step ==
    /\ bytes' = bytes
    /\ bytesLen' = bytesLen
    /\ (pc = "idle" /\ pc' = "idle") =>
          IF result'.kind = "ok"
          THEN offset' = offset + 12
          ELSE offset' = offset /\ result'.err = errInsufficientData
    /\ (pc = "fields" /\ pc' = "idle" /\ op = "parseQuestion") =>
          IF result'.kind = "ok"
          THEN offset' = offset + 4
          ELSE offset' - offset \in {0, 2}
    /\ (pc = "fields" /\ pc' = "idle" /\ op = "parseRecord") =>
          IF result'.kind = "ok"
          THEN /\ offset' = offset + 10 + result'.val.DataLength
               /\ Len(result'.val.Data) = result'.val.DataLength
          ELSE offset' - offset \in {0, 2, 4, 8, 10}

C10_CursorDiscipline ==
    /\ [](pc = "idle" => (0 <= offset /\ offset <= bytesLen))
    /\ [][C10_Step]_vars

C10_Witness ==
    /\ pc = "idle"
    /\ op = "parseHeader"
    /\ result.kind = "err"
    /\ result.err = errInsufficientData
    /\ bytesLen = 3
    /\ offset = startOff

====
